---- MODULE Spec2Model ----
(***************************************************************************)
(* The expense ledger engine of life_assistant                             *)
(* (src/toolkits/ExpenseTracker.py, class ExpenseTrackerToolkit).          *)
(*                                                                         *)
(* The state of the engine lives on disk: one CSV file per period under    *)
(* EXPENSE_DIR.  A file is modelled by its text: the header line and the   *)
(* rows, every field a string as pandas' to_csv writes it.  The in-memory  *)
(* table (a pandas DataFrame) is a sequence of records of typed cells, as  *)
(* pandas' read_csv infers them column by column.                          *)
(***************************************************************************)
EXTENDS Integers, Sequences, FiniteSets, TLC

VARIABLES
    files,       \* path -> the file: [exists, header, rows]
    dirExists,   \* whether EXPENSE_DIR exists
    dataframes,  \* self.dataframes: name -> DataFrame
    now,         \* the engine clock (datetime.now()), in ticks
    call,        \* the last public call: its name, arguments and resolved path
    ret,         \* what that call ended in: a returned string or a raised exception
    saved,       \* the DataFrame that call handed to save_expenses, if it did
    pre,         \* `files` as they were when that call started
    writers      \* callers that run a mutating operation at the same time as another

vars == <<files, dirExists, dataframes, now, call, ret, saved, pre, writers>>

----------------------------------------------------------------------------
(* Bounds of the model *)

\* the clock runs from 0 to MaxClock
MaxClock == 1
\* a calendar month lasts this many ticks
TicksPerMonth == 1
\* rows kept in all period files together
MaxRows == 2
\* numerals the CSV reader is asked to recognise: "0" .. "12"
MaxNumeral == 12

----------------------------------------------------------------------------
(* Module constants of ExpenseTracker.py *)

EXPENSE_DIR == "data/expenses"

CATEGORIES ==
    <<"Food", "Rent", "Transportation", "Clothing", "Material", "Event", "Paypal", "Sports">>

\* the column list of an empty store
Columns == <<"date", "amount", "category", "description">>

----------------------------------------------------------------------------
(* Arguments the callers are drawn from *)

\* Python's None for an optional int argument is <<>>, a given value v is <<v>>
None == <<>>
Some(v) == <<v>>

Amounts == {5, 10}
\* a member of CATEGORIES, a label outside it, and a label pandas reads as missing
CategoryArgs == {"Food", "Misc", "NA"}
\* free text: a word, the empty text, and a text made of digits
DescriptionArgs == {"Lunch", "", "12"}
\* descriptions looked up by delete_expense and update_expense
LookupArgs == DescriptionArgs \cup {"Bus"}
ExplicitPeriods == {<<2023, 4>>, <<2099, 1>>}
PeriodArgs ==
    {<<None, None>>, <<Some(2099), None>>, <<None, Some(1)>>}
        \cup {<<Some(p[1]), Some(p[2])>> : p \in ExplicitPeriods}

----------------------------------------------------------------------------
(* Cells of a DataFrame: a Python str, a number, or NaN (a missing value) *)

Str(s) == [t |-> "str", s |-> s, n |-> 0]
Num(n) == [t |-> "num", s |-> "", n |-> n]
NaN == [t |-> "nan", s |-> "", n |-> 0]

\* Python's  cell == s  for a str s: a number or NaN never equals a str
CellEqStr(c, s) == c.t = "str" /\ c.s = s

EmptyFrame == [columns |-> Columns, rows |-> <<>>]

----------------------------------------------------------------------------
(* The clock and the period files *)

YearOf(t) == 2023
MonthOf(t) == 4 + (t \div TicksPerMonth)

\* f"{month:02d}"
Pad2(m) == IF m >= 0 /\ m < 10 THEN "0" \o ToString(m) ELSE ToString(m)

\* datetime.now().isoformat()
isoformat(t) ==
    ToString(YearOf(t)) \o "-" \o Pad2(MonthOf(t)) \o "-01T00:00:" \o Pad2(t)

get_current_month_file(t) ==
    EXPENSE_DIR \o "/expenses_" \o ToString(YearOf(t)) \o "-" \o Pad2(MonthOf(t)) \o ".csv"

\* a file name that leaves the month out
get_month_file_NoMonth(year, month) ==
    EXPENSE_DIR \o "/expenses_" \o ToString(year) \o ".csv"

get_month_file(year, month) ==
    EXPENSE_DIR \o "/expenses_" \o ToString(year) \o "-" \o Pad2(month) \o ".csv"

\* the `if year is None or month is None` of the four optional-period operations
ResolveFile(year, month, t) ==
    IF year = None \/ month = None
    THEN get_current_month_file(t)
    ELSE get_month_file(year[1], month[1])

Paths ==
    {get_month_file(p[1], p[2]) : p \in ExplicitPeriods}
        \cup {get_current_month_file(t) : t \in 0..MaxClock}

NoFile == [exists |-> FALSE, header |-> <<>>, rows |-> <<>>]

----------------------------------------------------------------------------
(* pandas.read_csv and DataFrame.to_csv, as load_expenses and save_expenses *)
(* use them                                                                *)

\* texts read_csv takes for a missing value (its default na_values)
NAValues ==
    {"", "NA", "N/A", "NaN", "nan", "null", "NULL", "n/a", "#N/A", "#NA", "<NA>",
     "-NaN", "-nan", "1.#IND", "1.#QNAN", "-1.#IND", "-1.#QNAN", "#N/A N/A"}

IsNumeral(s) == \E n \in 0..MaxNumeral : ToString(n) = s
ParseInt(s) == CHOOSE n \in 0..MaxNumeral : ToString(n) = s

\* the text to_csv writes for a cell: na_rep is '', a str is written as it is
CellText(c) ==
    CASE c.t = "str" -> c.s
      [] c.t = "num" -> ToString(c.n)
      [] OTHER -> ""

\* read_csv infers one type per column: numbers when every text that is not
\* a missing value is a numeral, else str; a missing value is NaN in both
ColumnIsNumeric(texts) ==
    \A i \in 1..Len(texts) : texts[i] \in NAValues \/ IsNumeral(texts[i])

ParseCell(text, numeric) ==
    IF text \in NAValues THEN NaN
    ELSE IF numeric THEN Num(ParseInt(text))
    ELSE Str(text)

ColumnTexts(rows, col) == [i \in 1..Len(rows) |-> rows[i][col]]

read_csv(file) ==
    [columns |-> file.header,
     rows |-> [i \in 1..Len(file.rows) |->
                 [col \in {"date", "amount", "category", "description"} |->
                     ParseCell(file.rows[i][col],
                               ColumnIsNumeric(ColumnTexts(file.rows, col)))]]]

\* expenses.to_csv(file_path, index=False)
to_csv(frame) ==
    [exists |-> TRUE,
     header |-> frame.columns,
     rows |-> [i \in 1..Len(frame.rows) |->
                 [col \in {"date", "amount", "category", "description"} |->
                     CellText(frame.rows[i][col])]]]

load_expenses(fs, path) ==
    IF fs[path].exists THEN read_csv(fs[path]) ELSE EmptyFrame

save_expenses(fs, frame, path) == [fs EXCEPT ![path] = to_csv(frame)]

\* an emptiness test that never finds the table empty
IsEmpty_Never(frame) == FALSE

\* DataFrame.empty
IsEmpty(frame) == Len(frame.rows) = 0

RECURSIVE TotalRows(_, _)
TotalRows(fs, ps) ==
    IF ps = {} THEN 0
    ELSE LET p == CHOOSE q \in ps : TRUE
         IN Len(fs[p].rows) + TotalRows(fs, ps \ {p})

----------------------------------------------------------------------------
(* The record of a call *)

NoArgs ==
    [amount |-> 0, category |-> "", description |-> "",
     updated_amount |-> 0, updated_category |-> "", updated_description |-> "",
     year |-> None, month |-> None, operation |-> "", csv_path |-> "",
     dataframe_name |-> ""]

MkCall(op, args, path, t) == [op |-> op, args |-> args, path |-> path, time |-> t]

\* a returned string: its text, and the table it renders where it renders one
Returned(msg, table) == [raised |-> FALSE, exc |-> "", msg |-> msg, table |-> table]
Raised(exc) == [raised |-> TRUE, exc |-> exc, msg |-> "", table |-> <<>>]

\* no call is under way: the engine is synchronous, a caller holds one call at a time
NoCall == MkCall("none", NoArgs, "", 0)
Idle == call.op = "none"

\* the callers of the concurrent runs: what each has loaded and not yet saved
Writers == {1, 2}
IdleWriter ==
    [pc |-> "idle", op |-> "none", args |-> NoArgs, path |-> "",
     frame |-> EmptyFrame, msg |-> "", missed |-> FALSE]
NoWriters == [procs |-> [w \in Writers |-> IdleWriter], lastSaver |-> 0]

NotSaved == [did |-> FALSE, path |-> "", frame |-> EmptyFrame]
Saved(frame, path) == [did |-> TRUE, path |-> path, frame |-> frame]

----------------------------------------------------------------------------
(* The operations *)

Init ==
    /\ files = [p \in Paths |-> NoFile]
    /\ dirExists = FALSE
    /\ dataframes = <<>>
    /\ now = 0
    /\ call = NoCall
    /\ ret = Returned("", <<>>)
    /\ saved = NotSaved
    /\ pre = [p \in Paths |-> NoFile]
    /\ writers = NoWriters

\* time passes between calls
Tick ==
    /\ Idle
    /\ now < MaxClock
    /\ now' = now + 1
    /\ UNCHANGED <<files, dirExists, dataframes, call, ret, saved, pre, writers>>

\* the caller takes the returned string (or the exception) and may call again
Return ==
    /\ ~Idle
    /\ call' = NoCall
    /\ ret' = Returned("", <<>>)
    /\ saved' = NotSaved
    /\ pre' = [p \in Paths |-> NoFile]
    /\ UNCHANGED <<files, dirExists, dataframes, now, writers>>

\* lines 108-119 of add_expense: load, append the new record, save, confirm
AppendExpense(amount, category, description) ==
    /\ Idle
    /\ TotalRows(files, Paths) < MaxRows
    /\ LET file_path == get_current_month_file(now)
           expenses == load_expenses(files, file_path)
           new_expense == [date |-> Str(isoformat(now)),
                           amount |-> Num(amount),
                           category |-> Str(category),
                           description |-> Str(description)]
           concat == [expenses EXCEPT !.rows = Append(@, new_expense)]
       IN /\ files' = save_expenses(files, concat, file_path)
          /\ saved' = Saved(concat, file_path)
          /\ call' = MkCall("add_expense",
                            [NoArgs EXCEPT !.amount = amount, !.category = category,
                                           !.description = description],
                            file_path, now)
          /\ ret' = Returned("Expense of " \o ToString(amount) \o " in category '"
                               \o category \o "' added.", <<>>)
    /\ dirExists' = TRUE
    /\ pre' = files
    /\ UNCHANGED <<dataframes, now, writers>>

\* an add_expense that tests `valid` and turns an unknown category away
add_expense_Validating(amount, category, description) ==
    IF \E i \in 1..Len(CATEGORIES) : CATEGORIES[i] = category
    THEN AppendExpense(amount, category, description)
    ELSE /\ Idle
         /\ call' = MkCall("add_expense",
                           [NoArgs EXCEPT !.amount = amount, !.category = category,
                                          !.description = description],
                           get_current_month_file(now), now)
         /\ ret' = Returned("Invalid category '" \o category \o "'.", <<>>)
         /\ saved' = NotSaved
         /\ pre' = files
         /\ UNCHANGED <<files, dirExists, dataframes, now, writers>>

\* line 106 computes `valid` and nothing reads it: every category is appended
add_expense(amount, category, description) ==
    AppendExpense(amount, category, description)

\* validate_category formats `valid` into its log line before it returns;
\* no assignment binds that name in the function or the module, so the
\* call ends in a NameError and `category in CATEGORIES` is never returned
validate_category(category) ==
    [raised |-> TRUE, exc |-> "NameError",
     value |-> \E i \in 1..Len(CATEGORIES) : CATEGORIES[i] = category]

\* ', '.join(xs)
RECURSIVE Join(_)
Join(xs) ==
    IF Len(xs) = 0 THEN ""
    ELSE IF Len(xs) = 1 THEN xs[1]
    ELSE xs[1] \o ", " \o Join(Tail(xs))

\* DataFrame.to_string(index=False): the rows as the texts they are shown as
CellShown(c) ==
    CASE c.t = "str" -> c.s
      [] c.t = "num" -> ToString(c.n)
      [] OTHER -> "NaN"

to_string(rows) ==
    [i \in 1..Len(rows) |-> [col \in DOMAIN rows[i] |-> CellShown(rows[i][col])]]

NoRecordsMessage == "You have no recorded expenses for this period."

\* a list_expenses that writes the empty store of a period that has no file
list_expenses_Creating(year, month) ==
    /\ Idle
    /\ LET file_path == ResolveFile(year, month, now)
           expenses == load_expenses(files, file_path)
       IN /\ call' = MkCall("list_expenses",
                            [NoArgs EXCEPT !.year = year, !.month = month],
                            file_path, now)
          /\ ret' = IF IsEmpty(expenses)
                    THEN Returned(NoRecordsMessage, <<>>)
                    ELSE Returned("", to_string(expenses.rows))
          /\ files' = IF files[file_path].exists THEN files
                      ELSE save_expenses(files, expenses, file_path)
    /\ dirExists' = TRUE
    /\ saved' = NotSaved
    /\ pre' = files
    /\ UNCHANGED <<dataframes, now, writers>>

list_expenses(year, month) ==
    /\ Idle
    /\ LET file_path == ResolveFile(year, month, now)
           expenses == load_expenses(files, file_path)
       IN /\ call' = MkCall("list_expenses",
                            [NoArgs EXCEPT !.year = year, !.month = month],
                            file_path, now)
          /\ ret' = IF IsEmpty(expenses)
                    THEN Returned(NoRecordsMessage, <<>>)
                    ELSE Returned("", to_string(expenses.rows))
    /\ dirExists' = TRUE
    /\ saved' = NotSaved
    /\ pre' = files
    /\ UNCHANGED <<files, dataframes, now, writers>>

\* the order of str labels (by code point), for the labels of the model
Lexicographic ==
    <<"Clothing", "Event", "Food", "Material", "Misc", "NA", "Paypal", "Rent",
      "Sports", "Transportation">>

RECURSIVE SumAmount(_, _)
\* the sum of `amount` over the rows whose category is the str `key`
SumAmount(rows, key) ==
    IF Len(rows) = 0 THEN 0
    ELSE (IF CellEqStr(rows[1].category, key) THEN rows[1].amount.n ELSE 0)
            + SumAmount(Tail(rows), key)

RECURSIVE TotalAmount(_)
\* expenses["amount"].sum()
TotalAmount(rows) ==
    IF Len(rows) = 0 THEN 0 ELSE rows[1].amount.n + TotalAmount(Tail(rows))

\* expenses.groupby("category")["amount"].sum().reset_index(): one row per
\* category value, the keys sorted, rows whose category is NaN left out
GroupByCategorySum(frame) ==
    LET keys == {frame.rows[i].category.s :
                    i \in {j \in 1..Len(frame.rows) : frame.rows[j].category.t = "str"}}
        sorted == SelectSeq(Lexicographic, LAMBDA k : k \in keys)
    IN [i \in 1..Len(sorted) |->
            [category |-> sorted[i], amount |-> SumAmount(frame.rows, sorted[i])]]

summarize_expenses(year, month) ==
    /\ Idle
    /\ LET file_path == ResolveFile(year, month, now)
           expenses == load_expenses(files, file_path)
       IN /\ call' = MkCall("summarize_expenses",
                            [NoArgs EXCEPT !.year = year, !.month = month],
                            file_path, now)
          /\ ret' = IF IsEmpty(expenses)
                    THEN Returned(NoRecordsMessage, <<>>)
                    ELSE Returned("", GroupByCategorySum(expenses))
    /\ dirExists' = TRUE
    /\ saved' = NotSaved
    /\ pre' = files
    /\ UNCHANGED <<files, dataframes, now, writers>>

\* a filter that keeps the matching rows: `==` written for `!=`
FilterOut_KeepsMatches(frame, description) ==
    [frame EXCEPT !.rows =
        SelectSeq(@, LAMBDA r : CellEqStr(r.description, description))]

\* expenses[expenses["description"] != description]
FilterOut(frame, description) ==
    [frame EXCEPT !.rows =
        SelectSeq(@, LAMBDA r : ~CellEqStr(r.description, description))]

delete_expense(description, year, month) ==
    /\ Idle
    /\ LET file_path == ResolveFile(year, month, now)
           expenses == FilterOut(load_expenses(files, file_path), description)
       IN /\ files' = save_expenses(files, expenses, file_path)
          /\ saved' = Saved(expenses, file_path)
          /\ call' = MkCall("delete_expense",
                            [NoArgs EXCEPT !.description = description,
                                           !.year = year, !.month = month],
                            file_path, now)
          /\ ret' = Returned("Expense with description '" \o description
                               \o "' has been deleted.", <<>>)
    /\ dirExists' = TRUE
    /\ pre' = files
    /\ UNCHANGED <<dataframes, now, writers>>

\* expenses.loc[expenses["description"] == description,
\*              ["amount", "category", "description"]] = [...]
Overwrite(frame, description, updated_amount, updated_category, updated_description) ==
    [frame EXCEPT !.rows =
        [i \in 1..Len(@) |->
            IF CellEqStr(@[i].description, description)
            THEN [@[i] EXCEPT !.amount = Num(updated_amount),
                              !.category = Str(updated_category),
                              !.description = Str(updated_description)]
            ELSE @[i]]]

update_expense(description, updated_amount, updated_category, updated_description, year, month) ==
    LET valid == validate_category(updated_category)
        file_path == ResolveFile(year, month, now)
        expenses == Overwrite(load_expenses(files, file_path), description,
                              updated_amount, updated_category, updated_description)
        reached == ~valid.raised /\ valid.value
    IN /\ Idle
       /\ call' = MkCall("update_expense",
                         [NoArgs EXCEPT !.description = description,
                                        !.updated_amount = updated_amount,
                                        !.updated_category = updated_category,
                                        !.updated_description = updated_description,
                                        !.year = year, !.month = month],
                         file_path, now)
       /\ ret' = IF valid.raised THEN Raised(valid.exc)
                 ELSE IF ~valid.value
                 THEN Returned("Invalid category '" \o updated_category
                                 \o "'. Valid categories are: " \o Join(CATEGORIES)
                                 \o ".", <<>>)
                 ELSE Returned("Expense with description '" \o description
                                 \o "' has been updated.", <<>>)
       /\ files' = IF reached THEN save_expenses(files, expenses, file_path) ELSE files
       /\ saved' = IF reached THEN Saved(expenses, file_path) ELSE NotSaved
       /\ dirExists' = (dirExists \/ reached)
       /\ pre' = files
       /\ UNCHANGED <<dataframes, now, writers>>

\* an arbitrary CSV file outside EXPENSE_DIR, as create_dataframe_from_csv may be given
ExternalFiles ==
    [p \in {"notes.csv"} |->
        [exists |-> TRUE, header |-> Columns,
         rows |-> <<[date |-> "2023-04-01", amount |-> "5", category |-> "Food",
                     description |-> "Lunch"]>>]]

CsvPathArgs == {get_month_file(2099, 1), "notes.csv", "missing.csv"}
FrameNameArgs == {"april_expenses"}

FileAt(fs, path) ==
    IF path \in Paths THEN fs[path]
    ELSE IF path \in DOMAIN ExternalFiles THEN ExternalFiles[path]
    ELSE NoFile

create_dataframe_from_csv(csv_path, dataframe_name) ==
    LET file == FileAt(files, csv_path)
        dataframe == read_csv(file)
        stored == file.exists /\ ~IsEmpty(dataframe)
    IN /\ Idle
       /\ call' = MkCall("create_dataframe_from_csv",
                         [NoArgs EXCEPT !.csv_path = csv_path,
                                        !.dataframe_name = dataframe_name],
                         csv_path, now)
       /\ ret' = IF ~file.exists
                 THEN Returned("Error: [Errno 2] No such file or directory: '"
                                 \o csv_path \o "'", <<>>)
                 ELSE IF IsEmpty(dataframe)
                 THEN Returned("CSV file at " \o csv_path \o " is empty.", <<>>)
                 ELSE Returned("Dataframe '" \o dataframe_name
                                 \o "' created from CSV at " \o csv_path \o ".", <<>>)
       /\ dataframes' =
            IF stored
            THEN [n \in DOMAIN dataframes \cup {dataframe_name} |->
                    IF n = dataframe_name THEN dataframe ELSE dataframes[n]]
            ELSE dataframes
       /\ saved' = NotSaved
       /\ pre' = files
       /\ UNCHANGED <<files, dirExists, now, writers>>

generate_monthly_report(year, month) ==
    /\ Idle
    /\ LET file_path == get_month_file(year, month)
           expenses == load_expenses(files, file_path)
           period == ToString(year) \o "-" \o Pad2(month)
       IN /\ call' = MkCall("generate_monthly_report",
                            [NoArgs EXCEPT !.year = Some(year), !.month = Some(month)],
                            file_path, now)
          /\ ret' = IF IsEmpty(expenses)
                    THEN Returned("No expenses recorded for " \o period \o ".", <<>>)
                    ELSE Returned("Financial Report for " \o period
                                    \o " Total Expenses: "
                                    \o ToString(TotalAmount(expenses.rows)),
                                  GroupByCategorySum(expenses))
    /\ dirExists' = TRUE
    /\ saved' = NotSaved
    /\ pre' = files
    /\ UNCHANGED <<files, dataframes, now, writers>>

\* an existence test that never finds the file
AlreadyExists_Never(fs, path) == FALSE

\* os.path.exists(file_path) in create_monthly_expense_file
AlreadyExists(fs, path) == fs[path].exists

create_monthly_expense_file(year, month) ==
    /\ Idle
    /\ LET file_path == get_month_file(year, month)
           period == ToString(year) \o "-" \o Pad2(month)
           present == AlreadyExists(files, file_path)
       IN /\ call' = MkCall("create_monthly_expense_file",
                            [NoArgs EXCEPT !.year = Some(year), !.month = Some(month)],
                            file_path, now)
          /\ ret' = IF present
                    THEN Returned("Expense file for " \o period \o " already exists.", <<>>)
                    ELSE Returned("Expense file for " \o period
                                    \o " created successfully.", <<>>)
          /\ files' = IF present THEN files
                      ELSE save_expenses(files, EmptyFrame, file_path)
          /\ saved' = IF present THEN NotSaved ELSE Saved(EmptyFrame, file_path)
    /\ dirExists' = TRUE
    /\ pre' = files
    /\ UNCHANGED <<dataframes, now, writers>>

\* the parameters of a to_csv that writes the table back to the file of its period
ToCsvParameters(year, month) ==
    "{'path_or_buf': '" \o get_month_file(year, month) \o "', 'index': False}"

\* (operation, operation_parameters) given to run_dataframe_operation: a method
\* with no parameters, the method with a keyword it does not take, an attribute
\* that is not callable, a name DataFrame does not have, and a method that
\* writes the table to a file
OperationArgs(year, month) ==
    {<<"head", "{}">>, <<"head", "{'bogus': 1}">>, <<"empty", "{}">>,
     <<"no_such_operation", "{}">>, <<"to_csv", ToCsvParameters(year, month)>>}

\* getattr(dataframe, operation)(**operation_parameters): the text of the
\* exception it raises, "" when it raises none
OperationFailure(operation, operation_parameters) ==
    IF operation \notin {"head", "empty", "to_csv"}
    THEN "'DataFrame' object has no attribute '" \o operation \o "'"
    ELSE IF operation = "empty" THEN "'bool' object is not callable"
    ELSE IF operation = "head" /\ operation_parameters # "{}"
    THEN "head() got an unexpected keyword argument 'bogus'"
    ELSE ""

\* a handler that lets the exception through
CatchFailure_Propagates(failure) == Raised("Exception")

\* except Exception as e: return f"Error running operation: {e}"
CatchFailure(failure) == Returned("Error running operation: " \o failure, <<>>)

run_dataframe_operation(year, month, operation, operation_parameters) ==
    /\ Idle
    /\ LET file_path == get_month_file(year, month)
           dataframe == load_expenses(files, file_path)
           failure == OperationFailure(operation, operation_parameters)
           writes == failure = "" /\ operation = "to_csv"
           \* path_or_buf is file_path in every to_csv of OperationArgs
           written == IF writes THEN save_expenses(files, dataframe, file_path)
                      ELSE files
       IN /\ call' = MkCall("run_dataframe_operation",
                            [NoArgs EXCEPT !.year = Some(year), !.month = Some(month),
                                           !.operation = operation,
                                           !.description = operation_parameters],
                            file_path, now)
          \* to_csv returns None, which has no to_string: str(None) is returned
          /\ ret' = IF failure # "" THEN CatchFailure(failure)
                    ELSE IF writes THEN Returned("None", <<>>)
                    ELSE Returned("", to_string(dataframe.rows))
          /\ files' = written
    /\ dirExists' = TRUE
    /\ saved' = NotSaved
    /\ pre' = files
    /\ UNCHANGED <<dataframes, now, writers>>

UpdateLookupArgs == {"Lunch", "Bus"}
UpdatedAmounts == {7}
UpdatedCategories == {"Food", "Misc"}
UpdatedDescriptions == {"Dinner"}

Next ==
    \/ Tick
    \/ Return
    \/ \E a \in Amounts, c \in CategoryArgs, d \in DescriptionArgs :
          add_expense(a, c, d)
    \/ \E p \in PeriodArgs : list_expenses(p[1], p[2])
    \/ \E p \in PeriodArgs : summarize_expenses(p[1], p[2])
    \/ \E d \in LookupArgs, p \in PeriodArgs : delete_expense(d, p[1], p[2])
    \/ \E d \in UpdateLookupArgs, a \in UpdatedAmounts, c \in UpdatedCategories,
          ud \in UpdatedDescriptions, p \in PeriodArgs :
          update_expense(d, a, c, ud, p[1], p[2])
    \/ \E p \in ExplicitPeriods : generate_monthly_report(p[1], p[2])
    \/ \E p \in ExplicitPeriods : create_monthly_expense_file(p[1], p[2])
    \/ \E p \in ExplicitPeriods : \E o \in OperationArgs(p[1], p[2]) :
          run_dataframe_operation(p[1], p[2], o[1], o[2])
    \/ \E f \in CsvPathArgs, n \in FrameNameArgs : create_dataframe_from_csv(f, n)

Spec == Init /\ [][Next]_vars

----------------------------------------------------------------------------
(* Two callers at once.  A mutating operation is three steps with nothing  *)
(* held between them: it loads the file of its period, changes the table   *)
(* it holds in memory, and writes the whole table over the file.  The      *)
(* steps of two callers may come in any order.                             *)

WriterAmounts == {5}
WriterCategories == {"Food"}
WriterDescriptions == {"Lunch", "Bus"}

Writer(w) == writers.procs[w]

\* a caller that reads the file again at the moment it saves
LoadedBy_Fresh(w) == load_expenses(files, Writer(w).path)

\* the table a caller holds from its own load_expenses
LoadedBy(w) == Writer(w).frame

\* what a caller makes of a table: add_expense lines 111-117, delete_expense line 197
Changed(w, frame) ==
    IF Writer(w).op = "add_expense"
    THEN [frame EXCEPT !.rows =
            Append(@, [date |-> Str(isoformat(now)),
                       amount |-> Num(Writer(w).args.amount),
                       category |-> Str(Writer(w).args.category),
                       description |-> Str(Writer(w).args.description)])]
    ELSE FilterOut(frame, Writer(w).args.description)

\* the string the operation of a caller returns once it has saved
SuccessMessage(w) ==
    IF Writer(w).op = "add_expense"
    THEN "Expense of " \o ToString(Writer(w).args.amount) \o " in category '"
            \o Writer(w).args.category \o "' added."
    ELSE "Expense with description '" \o Writer(w).args.description
            \o "' has been deleted."

\* add_expense lines 108-109: the path of the current month and its table
WriterLoadAdd(w, amount, category, description) ==
    /\ Writer(w).pc = "idle"
    /\ LET file_path == get_current_month_file(now)
           expenses == load_expenses(files, file_path)
       IN /\ Len(expenses.rows) < MaxRows
          /\ writers' =
               [writers EXCEPT !.procs[w] =
                  [pc |-> "loaded", op |-> "add_expense",
                   args |-> [NoArgs EXCEPT !.amount = amount, !.category = category,
                                           !.description = description],
                   path |-> file_path, frame |-> expenses, msg |-> "",
                   missed |-> FALSE]]
    /\ dirExists' = TRUE
    /\ UNCHANGED <<files, dataframes, now, call, ret, saved, pre>>

\* delete_expense lines 191-196, year and month left out
WriterLoadDelete(w, description) ==
    /\ Writer(w).pc = "idle"
    /\ LET file_path == ResolveFile(None, None, now)
           expenses == load_expenses(files, file_path)
       IN writers' =
            [writers EXCEPT !.procs[w] =
               [pc |-> "loaded", op |-> "delete_expense",
                args |-> [NoArgs EXCEPT !.description = description],
                path |-> file_path, frame |-> expenses, msg |-> "",
                missed |-> FALSE]]
    /\ dirExists' = TRUE
    /\ UNCHANGED <<files, dataframes, now, call, ret, saved, pre>>

\* the rest of the operation: change the table held, write it over the file
\* (save_expenses), return the message.  A caller that loaded the same file
\* and has not saved yet has missed this write.
WriterSave(w) ==
    /\ Writer(w).pc = "loaded"
    /\ files' = save_expenses(files, Changed(w, LoadedBy(w)), Writer(w).path)
    /\ writers' =
         [procs |->
            [v \in Writers |->
                IF v = w
                THEN [Writer(v) EXCEPT !.pc = "returned", !.msg = SuccessMessage(w)]
                ELSE IF Writer(v).pc = "loaded" /\ Writer(v).path = Writer(w).path
                THEN [Writer(v) EXCEPT !.missed = TRUE]
                ELSE Writer(v)],
          lastSaver |-> w]
    /\ UNCHANGED <<dirExists, dataframes, now, call, ret, saved, pre>>

\* both callers have their answer: each is free to call again
WritersDone ==
    /\ \A w \in Writers : Writer(w).pc = "returned"
    /\ writers' = NoWriters
    /\ UNCHANGED <<files, dirExists, dataframes, now, call, ret, saved, pre>>

ConcurrentNext ==
    \/ \E w \in Writers, a \in WriterAmounts, c \in WriterCategories,
          d \in WriterDescriptions : WriterLoadAdd(w, a, c, d)
    \/ \E w \in Writers, d \in WriterDescriptions : WriterLoadDelete(w, d)
    \/ \E w \in Writers : WriterSave(w)
    \/ WritersDone

ConcurrentSpec == Init /\ [][ConcurrentNext]_vars

----------------------------------------------------------------------------
(* The claims.  Each is stated on the record of the last call: `call` and  *)
(* `ret`, the files before it (`pre`) and after it (`files`).  The store of *)
(* a period is what load_expenses reads from its file.                     *)

CategorySet ==
    {"Food", "Rent", "Transportation", "Clothing", "Material", "Paypal", "Event", "Sports"}

Store(fs, path) == load_expenses(fs, path).rows

StoreBefore == Store(pre, call.path)
StoreAfter == Store(files, call.path)

NoMatch(rows, description) ==
    \A i \in 1..Len(rows) : ~CellEqStr(rows[i].description, description)

RECURSIVE SumOf(_)
SumOf(ns) == IF Len(ns) = 0 THEN 0 ELSE ns[1] + SumOf(Tail(ns))

RankOf(label) == CHOOSE i \in 1..Len(Lexicographic) : Lexicographic[i] = label

\* C1: every public operation ends by returning a string; none ends in a
\* raised exception.
C1_EveryOperationReturnsAString ==
    ~Idle => ~ret.raised

\* C2: update_expense with an updated_category outside CategorySet leaves the
\* files unchanged and returns the 'invalid category' message that names every
\* category of CategorySet.
C2_InvalidCategoryIsRejected ==
    (call.op = "update_expense" /\ call.args.updated_category \notin CategorySet) =>
        /\ files = pre
        /\ ~ret.raised
        /\ ret.msg = "Invalid category '" \o call.args.updated_category
                       \o "'. Valid categories are: Food, Rent, Transportation, "
                       \o "Clothing, Material, Event, Paypal, Sports."

\* C3: update_expense with an updated_category in CategorySet returns the
\* success message, and in the persisted store of the resolved period every
\* record whose description equals the given one has amount, category and
\* description replaced by the updated values; every other record, every date
\* and the order are unchanged.
C3_ValidUpdateOverwritesEveryMatch ==
    (call.op = "update_expense" /\ call.args.updated_category \in CategorySet) =>
        /\ ~ret.raised
        /\ ret.msg = "Expense with description '" \o call.args.description
                       \o "' has been updated."
        /\ StoreAfter =
              [i \in 1..Len(StoreBefore) |->
                  IF CellEqStr(StoreBefore[i].description, call.args.description)
                  THEN [date |-> StoreBefore[i].date,
                        amount |-> Num(call.args.updated_amount),
                        category |-> Str(call.args.updated_category),
                        description |-> Str(call.args.updated_description)]
                  ELSE StoreBefore[i]]

\* C4: after add_expense the current period's persisted store is the previous
\* store with exactly one record appended at the end, which carries the given
\* amount, category and description and a date not earlier than the call time;
\* the earlier records keep their values and order.
C4_AddAppendsTheRecord ==
    call.op = "add_expense" =>
        /\ ~ret.raised
        /\ call.path = get_current_month_file(call.time)
        /\ Len(StoreAfter) = Len(StoreBefore) + 1
        /\ SubSeq(StoreAfter, 1, Len(StoreBefore)) = StoreBefore
        /\ LET last == StoreAfter[Len(StoreAfter)]
           IN /\ last.amount = Num(call.args.amount)
              /\ last.category = Str(call.args.category)
              /\ last.description = Str(call.args.description)
              /\ \E t \in call.time..MaxClock : last.date = Str(isoformat(t))

\* C5: delete_expense with a description that matches no record of the
\* resolved period leaves that period's store as it was (same records, same
\* order) and returns the success message.
C5_DeleteWithoutMatchKeepsTheStore ==
    (call.op = "delete_expense" /\ NoMatch(StoreBefore, call.args.description)) =>
        /\ StoreAfter = StoreBefore
        /\ ~ret.raised
        /\ ret.msg = "Expense with description '" \o call.args.description
                       \o "' has been deleted."

\* a delete_expense that matched nothing in a store that holds records
C5_Witness ==
    /\ call.op = "delete_expense"
    /\ Len(StoreBefore) > 0
    /\ NoMatch(StoreBefore, call.args.description)
    /\ ~ret.raised

\* C6: after delete_expense(description) the persisted store of the resolved
\* period holds no record whose description equals the given string, and the
\* records with another description are exactly those of the previous store,
\* in their previous order.
C6_DeleteRemovesEveryMatch ==
    call.op = "delete_expense" =>
        /\ NoMatch(StoreAfter, call.args.description)
        /\ StoreAfter =
              SelectSeq(StoreBefore,
                        LAMBDA r : ~CellEqStr(r.description, call.args.description))

\* C7: for a non-empty store, summarize_expenses yields exactly one row per
\* category that occurs in the store, ordered alphabetically by category, whose
\* total is the sum of amount over the records of that category; the totals
\* add up to the sum of amount over all records.
C7_SummaryHasOneTotalPerCategory ==
    (call.op = "summarize_expenses" /\ Len(StoreAfter) > 0) =>
        LET store == StoreAfter
            table == ret.table
        IN /\ ~ret.raised
           /\ \A j \in 1..Len(store) :
                 \E i \in 1..Len(table) : store[j].category = Str(table[i].category)
           /\ \A i \in 1..Len(table) :
                 \E j \in 1..Len(store) : store[j].category = Str(table[i].category)
           /\ \A i, k \in 1..Len(table) :
                 i < k => RankOf(table[i].category) < RankOf(table[k].category)
           /\ \A i \in 1..Len(table) :
                 table[i].amount =
                    SumOf([j \in 1..Len(store) |->
                              IF store[j].category = Str(table[i].category)
                              THEN store[j].amount.n ELSE 0])
           /\ SumOf([i \in 1..Len(table) |-> table[i].amount])
                 = SumOf([j \in 1..Len(store) |-> store[j].amount.n])

\* C8: create_monthly_expense_file on a period whose file exists, whatever it
\* holds, returns the 'already exists' message and leaves every file as it
\* was; on a period without a file it writes the empty store with the four
\* canonical columns and changes no other file.
C8_CreateIsIdempotent ==
    call.op = "create_monthly_expense_file" =>
        LET period == ToString(call.args.year[1]) \o "-" \o Pad2(call.args.month[1])
        IN /\ ~ret.raised
           /\ pre[call.path].exists =>
                 /\ files = pre
                 /\ ret.msg = "Expense file for " \o period \o " already exists."
           /\ ~pre[call.path].exists =>
                 /\ files = [pre EXCEPT ![call.path] =
                               [exists |-> TRUE,
                                header |-> <<"date", "amount", "category", "description">>,
                                rows |-> <<>>]]
                 /\ ret.msg = "Expense file for " \o period \o " created successfully."

\* a create_monthly_expense_file on a period whose file already holds records
C8_Witness ==
    /\ call.op = "create_monthly_expense_file"
    /\ pre[call.path].exists
    /\ Len(pre[call.path].rows) > 0
    /\ ~ret.raised

\* C9: generate_monthly_report for a period with no file, or with an empty
\* store, returns the 'no expenses recorded' message and neither creates nor
\* changes a file.
C9_ReportOfAnEmptyPeriod ==
    (call.op = "generate_monthly_report" /\ Len(StoreBefore) = 0) =>
        /\ ~ret.raised
        /\ ret.msg = "No expenses recorded for " \o ToString(call.args.year[1])
                       \o "-" \o Pad2(call.args.month[1]) \o "."
        /\ files = pre

\* a generate_monthly_report on a period that has no file
C9_Witness ==
    /\ call.op = "generate_monthly_report"
    /\ ~pre[call.path].exists
    /\ ~files[call.path].exists
    /\ ~ret.raised

\* C10: what load_expenses reads from a file that save_expenses has just
\* written is the saved sequence of records, field by field and in order.
C10_SaveThenLoadIsTheStore ==
    saved.did => load_expenses(files, saved.path) = saved.frame

\* C11: run_dataframe_operation never ends in a raised exception, it always
\* returns a string; an operation name the table does not have, an attribute
\* that cannot be called and a keyword the operation does not take each come
\* back as the 'Error running operation' string.
C11_OperationFailureIsReturned ==
    call.op = "run_dataframe_operation" =>
        /\ ~ret.raised
        /\ call.args.operation = "no_such_operation" =>
              ret.msg = "Error running operation: 'DataFrame' object has no "
                          \o "attribute 'no_such_operation'"
        /\ call.args.operation = "empty" =>
              ret.msg = "Error running operation: 'bool' object is not callable"
        /\ (call.args.operation = "head" /\ call.args.description = "{'bogus': 1}") =>
              ret.msg = "Error running operation: head() got an unexpected "
                          \o "keyword argument 'bogus'"

\* a run_dataframe_operation whose operation name the table does not have
C11_Witness ==
    /\ call.op = "run_dataframe_operation"
    /\ call.args.operation = "no_such_operation"
    /\ ~ret.raised
    /\ ret.msg # ""

\* C13: add_expense with a category outside CategorySet still appends the
\* record to the file of the current period and returns the confirmation: the
\* file ends up holding a record whose category is not in CategorySet.
C13_AddDoesNotValidateCategory ==
    (call.op = "add_expense" /\ call.args.category \notin CategorySet) =>
        /\ ~ret.raised
        /\ ret.msg = "Expense of " \o ToString(call.args.amount) \o " in category '"
                       \o call.args.category \o "' added."
        /\ files[call.path].exists
        /\ Len(files[call.path].rows) = Len(pre[call.path].rows) + 1
        /\ LET written == files[call.path].rows[Len(files[call.path].rows)]
               loaded == StoreAfter[Len(StoreAfter)]
           IN /\ written.amount = ToString(call.args.amount)
              /\ written.category = call.args.category
              /\ written.description = call.args.description
              /\ \A c \in CategorySet : loaded.category # Str(c)

\* an add_expense with the category 'Misc', which CategorySet does not hold
C13_Witness ==
    /\ call.op = "add_expense"
    /\ call.args.category = "Misc"
    /\ ~ret.raised
    /\ files[call.path] # pre[call.path]

\* the period the claims say a call works on: the current calendar month when
\* year or month is absent, (year, month) when both are given
ResolvedPeriod ==
    IF call.args.year = None \/ call.args.month = None
    THEN get_current_month_file(call.time)
    ELSE get_month_file(call.args.year[1], call.args.month[1])

\* C14: list_expenses, summarize_expenses, delete_expense and update_expense
\* work on the store of the current calendar month when year or month is
\* absent, whatever the other argument is, and on the store of (year, month)
\* only when both are given.
C14_PeriodResolution ==
    LET store == load_expenses(pre, ResolvedPeriod)
    IN /\ call.op = "list_expenses" =>
             ret = IF Len(store.rows) = 0 THEN Returned(NoRecordsMessage, <<>>)
                   ELSE Returned("", to_string(store.rows))
       /\ call.op = "summarize_expenses" =>
             ret = IF Len(store.rows) = 0 THEN Returned(NoRecordsMessage, <<>>)
                   ELSE Returned("", GroupByCategorySum(store))
       /\ call.op = "delete_expense" =>
             files = save_expenses(pre, FilterOut(store, call.args.description),
                                   ResolvedPeriod)
       /\ (call.op = "update_expense" /\ call.args.updated_category \in CategorySet) =>
             /\ ~ret.raised
             /\ files = save_expenses(pre,
                            Overwrite(store, call.args.description,
                                      call.args.updated_amount,
                                      call.args.updated_category,
                                      call.args.updated_description),
                            ResolvedPeriod)

\* years and months, one and two digits long among them, to tell file names apart
PeriodUniverse == {202, 2023, 2099} \X {1, 4, 5, 10, 11, 12}

\* the period a mutating call acts on: the current one for add_expense, the
\* named one for create_monthly_expense_file, the resolved one for the others
ActedPeriod ==
    IF call.op = "add_expense" THEN get_current_month_file(call.time)
    ELSE ResolvedPeriod

\* no two periods of PeriodUniverse have the same file name
FileNamesDistinct ==
    \A p \in PeriodUniverse, q \in PeriodUniverse :
        p # q => get_month_file(p[1], p[2]) # get_month_file(q[1], q[2])

\* C15: two distinct (year, month) pairs have distinct files, and a call of
\* add_expense, delete_expense, update_expense or create_monthly_expense_file
\* leaves the file of every period other than the one it acts on as it was,
\* in existence and in content.
C15_PeriodIsolation ==
    /\ FileNamesDistinct
    /\ call.op \in {"add_expense", "delete_expense", "update_expense",
                    "create_monthly_expense_file"} =>
          \A p \in Paths \ {ActedPeriod} : files[p] = pre[p]

\* a call that changed the file of its period while the file of another
\* period holds records
C15_Witness ==
    /\ call.op \in {"add_expense", "delete_expense"}
    /\ files[ActedPeriod] # pre[ActedPeriod]
    /\ \E p \in Paths \ {ActedPeriod} : files[p].exists /\ Len(files[p].rows) > 0

\* the calls that read a period and say so when it holds nothing
ReadersKeepTheFiles ==
    /\ call.op \in {"list_expenses", "summarize_expenses", "generate_monthly_report"} =>
          files = pre
    /\ (call.op \in {"list_expenses", "summarize_expenses"}
            /\ ~pre[ResolvedPeriod].exists) =>
          ret = Returned(NoRecordsMessage, <<>>)
    /\ (call.op = "generate_monthly_report" /\ ~pre[ResolvedPeriod].exists) =>
          ret = Returned("No expenses recorded for " \o ToString(call.args.year[1])
                           \o "-" \o Pad2(call.args.month[1]) \o ".", <<>>)

\* C16 as the specification has it: a period file comes into existence only
\* through add_expense, delete_expense, update_expense or
\* create_monthly_expense_file; list_expenses, summarize_expenses and
\* generate_monthly_report never create or change a file and answer a missing
\* file with the 'no records' message.
C16_OnlyTheFourWritersCreateAFile ==
    /\ (~Idle /\ \E p \in Paths : ~pre[p].exists /\ files[p].exists) =>
          call.op \in {"add_expense", "delete_expense", "update_expense",
                       "create_monthly_expense_file"}
    /\ ReadersKeepTheFiles

\* C16: a period file comes into existence only through add_expense,
\* delete_expense, update_expense, create_monthly_expense_file, or a
\* run_dataframe_operation whose operation is to_csv; list_expenses,
\* summarize_expenses and generate_monthly_report never create or change a
\* file and answer a missing file with the 'no records' message.
C16_OnlyWritesCreateAFile ==
    /\ (~Idle /\ \E p \in Paths : ~pre[p].exists /\ files[p].exists) =>
          \/ call.op \in {"add_expense", "delete_expense", "update_expense",
                          "create_monthly_expense_file"}
          \/ call.op = "run_dataframe_operation" /\ call.args.operation = "to_csv"
    /\ ReadersKeepTheFiles

\* a run_dataframe_operation that brought the file of its period into existence
C16_Witness ==
    /\ call.op = "run_dataframe_operation"
    /\ ~pre[call.path].exists
    /\ files[call.path].exists
    /\ ret = Returned("None", <<>>)

\* C12: two callers of a mutating operation on the same period, each of which
\* loaded before the other saved: both return their success message, and the
\* file ends up as the table the last saver loaded with the last saver's
\* change alone, the change of the first saver is not in it.
C12_LastSaverWins ==
    \A w \in Writers, v \in Writers :
        (/\ w # v
         /\ writers.lastSaver = w
         /\ Writer(w).pc = "returned" /\ Writer(v).pc = "returned"
         /\ Writer(w).path = Writer(v).path
         /\ Writer(w).missed) =>
            /\ Writer(w).msg = SuccessMessage(w)
            /\ Writer(v).msg = SuccessMessage(v)
            /\ files[Writer(w).path] = to_csv(Changed(w, Writer(w).frame))

\* two add_expense calls on one period, both answered with the confirmation,
\* and the record of the one that saved first is not in the file
C12_Witness ==
    \E w \in Writers, v \in Writers :
        /\ w # v
        /\ writers.lastSaver = w
        /\ Writer(w).pc = "returned" /\ Writer(v).pc = "returned"
        /\ Writer(w).op = "add_expense" /\ Writer(v).op = "add_expense"
        /\ Writer(w).path = Writer(v).path
        /\ Writer(w).msg = SuccessMessage(w) /\ Writer(v).msg = SuccessMessage(v)
        /\ \A i \in 1..Len(files[Writer(w).path].rows) :
              files[Writer(w).path].rows[i].description # Writer(v).args.description

====
